---- MODULE Spec2Model ----
(***************************************************************************)
(* Model of the OM/flyer download tools of anishgillella/Om-Extraction:    *)
(*   prog = "multi" : src/om_multi_agent.py  (scout + single workflow)      *)
(*   prog = "flyer" : src/om_flyer_downloader.py (batch workflow)           *)
(* Spec covers these two.  SpecListing models src/browser-use/OM.py (the   *)
(* listing-page downloader) and SpecTokens the token accounting of          *)
(* src/om_flyer_downloader.py.                                              *)
(* The planner (LLM), the browser and the web site are the environment:    *)
(* their choices are drawn with \E from small sets.                         *)
(***************************************************************************)
EXTENDS Integers, Sequences, FiniteSets, TLC

\* ------------------------------------------------------------------ bounds
MaxUrls == 2
\* failures of the browser, the planner or the disk injected in one run
MaxFaults == 1
\* the step of Scenario B after which the download event arrives
ScenarioSteps == 6
\* LLM calls of one workflow in SpecTokens
MaxCalls == 2

\* --------------------------------------------------------------- constants
SingleMaxSteps == 10
BatchMaxSteps == 50
ScoutMaxSteps == 6
max_retries == 3

\* ---------------------------------------------------------------- variants
\* Variants of the control decisions below, each differing from the source
\* in one way, to show which properties depend on which decision.

\* the run goes on although the check asked for a stop
AfterMonitor_ignore_stop(stop) == "act"

\* the check never asks for a stop
ShouldStopCond_never(files, flag) == FALSE

\* an exception of the agent ends the whole program
AfterRaise_abort(p) == "aborted"

\* the agent's loop does not look at the step cap
AfterStep_uncapped(n, cap, done) == IF done THEN "wait" ELSE "mon"

\* a count above one selects a batch strategy
SelectStrategy_batch(n) ==
  IF n > 1 THEN "batch" ELSE IF n = 1 THEN "single" ELSE "skip"

\* the main agent runs even when the strategy is skip
AfterStrategy_always_run(s) == "setup"

\* the download handler does not look at the recorded file names
AlreadyRecorded_never(name, names) == FALSE

\* main goes on to the next URL without pausing
PauseSeconds_none(p) == 0

\* the constructor accepts a missing API key
AfterConstruct_ignore_key(key) == "loop"

\* main takes the same URL again
NextIndex_retry(i) == i

\* a handler that keeps trying and records the file whatever happened
SaveLoop_append_always(attempt, fails) ==
  [attempts |-> fails + 1, appended |-> 1, placeholder |-> FALSE]

\* ------------------------------------------------------------ small strings
\* A text is a sequence of one-character strings.
Digits == {"0", "1", "2", "3", "4", "5", "6", "7", "8", "9"}

DigitVal(c) ==
  CASE c = "0" -> 0 [] c = "1" -> 1 [] c = "2" -> 2 [] c = "3" -> 3
    [] c = "4" -> 4 [] c = "5" -> 5 [] c = "6" -> 6 [] c = "7" -> 7
    [] c = "8" -> 8 [] c = "9" -> 9

\* str.strip(): drop leading and trailing blanks
RECURSIVE StripLeft(_)
StripLeft(s) ==
  IF s /= <<>> /\ Head(s) = " " THEN StripLeft(Tail(s)) ELSE s

RECURSIVE StripRight(_)
StripRight(s) ==
  IF s /= <<>> /\ s[Len(s)] = " " THEN StripRight(SubSeq(s, 1, Len(s) - 1)) ELSE s

Strip(s) == StripRight(StripLeft(s))

\* str.isdigit(): non-empty and every character a digit
IsDigit(s) == s /= <<>> /\ \A i \in 1..Len(s) : s[i] \in Digits

\* int(text) of a digit string
RECURSIVE ToInt(_)
ToInt(s) ==
  IF s = <<>> THEN 0
  ELSE ToInt(SubSeq(s, 1, Len(s) - 1)) * 10 + DigitVal(s[Len(s)])

\* `needle in hay` on sequences of tokens
Contains(hay, needle) ==
  \E i \in 1..(Len(hay) - Len(needle) + 1) :
    SubSeq(hay, i, i + Len(needle) - 1) = needle

\* ------------------------------------------------------------- sites, files
\* A host is its sequence of dot-separated labels.
HostWwwACom == <<"www", "a", "com">>
HostANet == <<"a", "net">>
HostBCom == <<"b", "com">>
Hosts == {HostWwwACom, HostANet, HostBCom}

\* netloc.replace('www.','').replace('.com','').replace('.net','').replace('.org','')
\* on labels: a "www" label followed by a dot goes, and so does a "com", "net"
\* or "org" label that follows a dot.
StripDomain(host) ==
  LET keep(i) == ~(host[i] = "www" /\ i < Len(host))
                 /\ ~(host[i] \in {"com", "net", "org"} /\ i > 1)
  IN  SelectSeq([i \in 1..Len(host) |-> IF keep(i) THEN host[i] ELSE "."],
                LAMBDA x : x /= ".")

\* OMFlyerDownloader.get_domain_folder (om_multi_agent.py)
get_domain_folder(url) ==
  LET domain == StripDomain(url)
  IN  IF domain = <<>> THEN <<"misc">> ELSE domain

\* OMFlyerDownloader.get_domain_folder (om_flyer_downloader.py): the leading
\* www label goes, then of two or more labels only the first stays
flyer_get_domain_folder(url) ==
  LET domain == IF Len(url) > 0 /\ url[1] = "www" THEN Tail(url) ELSE url
  IN  IF Len(domain) >= 2 THEN <<domain[1]>> ELSE domain

PdfName == "om.pdf"
Names == {PdfName}

File(dir, name) == [dir |-> dir, name |-> name]

\* domain_dir.glob("*.pdf")
GlobPdf(files, dir) == {f \in files : f.dir = dir}

\* ------------------------------------------------------ download_pdf_direct
\* The text of an ActionResult, as tokens.  "[ok]" and "[x]" stand for the
\* check-mark and cross emoji the source prints.
MsgComplete(name) ==
  <<"[ok]", "DOWNLOAD", "COMPLETE!", "Successfully", "downloaded", "PDF:", name>>
MsgAllFailed == <<"[x]", "All", "download", "methods", "failed">>
MsgDownloaded(name) == <<"[ok]", "Downloaded", "PDF:", name>>
MsgAlready == <<"[skip]", "Already", "downloaded:">>
MsgExists == <<"[file]", "File", "already", "exists:">>
MsgNotPdf == <<"[x]", "Current", "page", "URL", "doesn't", "appear", "to", "be", "a", "PDF">>

\* the text monitor_downloads looks for in the result of the capture
MonitorNeedle == <<"[ok]", "Downloaded:">>

\* A document URL: its host and whether the URL itself looks like a PDF
\* (a blob: URL does not).
PdfUrl(host) == [host |-> host, kind |-> "pdf"]
PageUrl(host) == [host |-> host, kind |-> "page"]

\* download_pdf_direct of om_multi_agent.py: the file it writes (if any) and
\* the message it returns.  fetched: whether one of its three methods got
\* the PDF bytes.
download_pdf_direct(url, fetched) ==
  IF url.kind /= "pdf"
    THEN [written |-> {}, msg |-> MsgNotPdf]
    ELSE IF fetched
      THEN [written |-> {File(StripDomain(url.host), PdfName)},
            msg |-> MsgComplete(PdfName)]
      ELSE [written |-> {}, msg |-> MsgAllFailed]

\* ------------------------------------------------------------------- scout
\* Final answers a scout planner may give (the text of its done action):
\* no control, two controls (with blanks round the digit), a sentence
\* instead of a number.
ScoutTexts ==
  { <<"0">>, <<" ", "2", " ">>, <<"2", " ", "O", "M", "s">> }

NoAnswer == [done |-> FALSE, text |-> <<>>]

\* keys the fallback of scout_page looks for in the action dicts
ResultKeys == {"result", "output", "response", "answer", "value"}
\* keys of the action dicts of this program (registered action names)
ActionKeys == {"done", "go_to_url", "click_element", "input_text",
               "download_pdf_direct", "handle_pdf_new_tab", "interacted_element"}

\* scout_page, lines 512-547: the count read from the agent's history
ExtractCount(ans) ==
  LET fromDone == IF ans.done /\ IsDigit(Strip(ans.text))
                    THEN ToInt(Strip(ans.text)) ELSE 0
      \* lines 529-544: a second look, under the result keys; no action
      \* dict of this program has such a key, so nothing is found
      fallback == IF ActionKeys \cap ResultKeys = {} THEN 0 ELSE fromDone
  IN  IF fromDone = 0 THEN fallback ELSE fromDone

\* the value scout_page returns when its try block raises
ScoutDefaultOnError == 1

\* download_om_flyer, lines 916-929: the strategy chosen for a count
SelectStrategy(n) == IF n > 0 THEN "single" ELSE "skip"

\* ------------------------------------------------------------------ errors
NoError == "None"
ErrNoButtons == "No OM buttons found on the webpage"
ErrNoNewFiles == "No new files were downloaded"
ErrNoFiles == "No files were successfully downloaded"
ErrAgent == "agent exception"

\* ------------------------------------------------------------------- state
VARIABLES
  prog,                   \* which tool runs
  urls,                   \* sys.argv[1:]
  apiKey,                 \* whether OPENAI_API_KEY is available
  pc,                     \* position of main / the current workflow
  idx,                    \* 1-based index of the URL being processed
  downloaded_files,       \* downloader.downloaded_files
  should_stop,            \* downloader.should_stop
  download_handlers_setup,\* downloader.download_handlers_setup
  handlerSession,         \* session of the page the download handler is on
  browser_session,        \* downloader.browser_session
  current_url,            \* downloader.current_url
  openSessions,           \* browser sessions created and not closed
  fs,                     \* PDF files under the downloads directory
  existing_files,         \* snapshot taken by download_om_flyer
  count,                  \* om_button_count
  scoutAns,               \* done action of the scout's history
  result,                 \* the result dict of the current workflow
  all_results,            \* results collected by main
  steps,                  \* steps the running agent has executed
  pending,                \* browser downloads started, event not yet handled
  pdfTab,                 \* URL of a second tab showing a document, or NoTab
  g,                      \* history: facts about the current WorkItem
  downloaded_filenames,   \* downloader.downloaded_filenames (flyer tool)
  downloaded_urls,        \* downloader.downloaded_urls (flyer tool)
  downloads_dir,          \* downloader.downloads_dir (flyer tool)
  faults,                 \* history: failures injected so far
  prev,                   \* history: how the previous WorkItem ended
  history,                \* OM.py: identifiers in download_history.json
  lst,                    \* OM.py: locals of download_oms_from_listing_page
  token_tracker,          \* om_flyer_downloader.py: downloader.token_tracker
  tk                      \* om_flyer_downloader.py: token locals of a workflow

vars == <<prog, urls, apiKey, pc, idx, downloaded_files, should_stop,
          download_handlers_setup, handlerSession, browser_session,
          current_url, openSessions, fs, existing_files, count, scoutAns,
          result, all_results, steps, pending, pdfTab, g, faults, prev,
          downloaded_filenames, downloaded_urls, downloads_dir,
          history, lst, token_tracker, tk>>

\* what the download workflows of om_multi_agent.py and
\* om_flyer_downloader.py leave alone
otherVars == <<history, lst, token_tracker, tk>>

flyerVars == <<downloaded_filenames, downloaded_urls, downloads_dir>>

NoSession == <<0, "none">>
NoTab == [host |-> <<>>, kind |-> "none"]
NoUrl == <<>>

Session(i, role) == <<i, role>>

\* a host whose download folder differs from that of h
Other(h) == IF h = HostBCom THEN HostANet ELSE HostBCom

\* download_om_flyer, lines 882-892
InitResult(url) ==
  [success |-> FALSE, url |-> url, downloaded_files |-> <<>>,
   error |-> NoError, strategy_used |-> "", om_buttons_found |-> 0]

\* History of one WorkItem:
\*   scoutKind "numeric" | "ambiguous" | "failed": what the scout produced
\*   fresh      files saved or written since the WorkItem started
\*   flagSet    a download event set should_stop since the WorkItem started
\*   events     download events handled (2 stands for 2 or more)
\*   scen       "B" when the first download event was saved right after
\*              the driver's step number ScenarioSteps, before the next
\*              check, and that check ran; "other" otherwise
\*   capture    outcome of the capture made by the latest per-step check
\*   endedBy    "stop" | "done" | "cap" | "exc": how the driver's run ended
\*   ran        the main driver executed at least one step
\*   checked    the stop condition was evaluated since the agent's last step
\*   placeholder  files that hold the handler's "Download attempted" text
\*   attempts   save_as calls made for the latest download event
\*   pausedFor  seconds main paused between the previous WorkItem and this
FreshFacts ==
  [scoutKind |-> "none", fresh |-> {}, flagSet |-> FALSE, events |-> 0,
   scen |-> "none", capture |-> "none", endedBy |-> "none",
   ran |-> FALSE, pausedFor |-> 0, checked |-> FALSE,
   placeholder |-> {}, attempts |-> 0]

\* download_history.json: whether it holds JSON, and its list
\* "downloaded_properties"; a missing file reads as the empty list
NoHistory == [json |-> TRUE, ids |-> {}]

\* OM.py before download_oms_from_listing_page is called
NoListing == [loaded |-> {}, files |-> {}, finished |-> FALSE]

\* TokenTrackingCallback.__init__ (om_flyer_downloader.py), lines 34-40
NewTracker ==
  [total_tokens |-> 0, input_tokens |-> 0, output_tokens |-> 0, call_count |-> 0]

\* before download_om_flyer has read the tracker; own: what the LLM calls
\* of the current workflow used (history)
NoTokens == [start_tokens |-> 0, own |-> NewTracker]

RunHosts == {HostWwwACom, HostBCom}

UrlLists ==
  {s \in UNION {[1..n -> RunHosts] : n \in 1..MaxUrls} : s[1] = HostWwwACom}

Init ==
  /\ prog \in {"multi", "flyer"}
  /\ urls \in UrlLists
  /\ apiKey \in BOOLEAN
  /\ pc = "start"
  /\ idx = 0
  /\ downloaded_files = <<>>
  /\ should_stop = FALSE
  /\ download_handlers_setup = FALSE
  /\ handlerSession = NoSession
  /\ browser_session = NoSession
  /\ current_url = NoUrl
  /\ openSessions = {}
  /\ fs \in {{}, {File(<<"a">>, PdfName)}}
  /\ existing_files = {}
  /\ count = 0
  /\ scoutAns = NoAnswer
  /\ result = InitResult(NoUrl)
  /\ all_results = <<>>
  /\ steps = 0
  /\ pending = {}
  /\ pdfTab = NoTab
  /\ g = FreshFacts
  /\ faults = 0
  /\ downloaded_filenames = {}
  /\ downloaded_urls = {}
  /\ downloads_dir = <<>>
  /\ prev = "none"
  /\ history = NoHistory
  /\ lst = NoListing
  /\ token_tracker = NewTracker
  /\ tk = NoTokens

\* ------------------------------------------------------------ small helpers
\* the step cap handed to Agent.run by the running workflow
StepCap == IF prog = "multi" THEN SingleMaxSteps ELSE BatchMaxSteps

\* setup_download_handlers: the new (download_handlers_setup, handlerSession).
\* pageOk: whether browser_session.get_current_page() succeeded.
SetupHandlers(setup, hs, sess, pageOk) ==
  IF setup THEN <<setup, hs>>
  ELSE IF pageOk THEN <<TRUE, sess>> ELSE <<FALSE, hs>>

\* monitor_downloads, lines 832-836: the stop condition
ShouldStopCond(files, flag) == Len(files) > 0 \/ flag

\* monitor_downloads, line 818: whether the capture result counts as success
CaptureSucceeded(msg) == Contains(msg, MonitorNeedle)

\* Agent.run with on_step_start=monitor_downloads: where control goes after
\* the hook returned (stop = FALSE) or raised (stop = TRUE)
AfterMonitor(stop) == IF stop THEN "wait" ELSE "act"

\* Agent.run: where control goes after step n (done: the planner declared done)
\* where control goes when agent.run raised something that is not the stop
\* signal: _download_single_om records it and returns to the verdict
\* (om_multi_agent.py 1058-1074); in om_flyer_downloader.py the handler of
\* download_om_flyer records it and the verdict is skipped (1040-1042)
AfterRaise(p) == IF p = "multi" THEN "post" ELSE "fin"

\* download_om_flyer, lines 916-929: a skip returns at once, any other
\* strategy goes on to the main agent
AfterStrategy(s) == IF s = "skip" THEN "fin" ELSE "setup"

\* main, line 1229 (for i, url in enumerate(urls, 1)), and batch_download of
\* om_flyer_downloader.py, line 1174: the URL taken after URL number i
NextIndex(i) == i + 1

\* OMFlyerDownloader.__init__, lines 625-627, and main, lines 1224-1226 and
\* 1244-1247: without an API key the constructor raises ValueError, main's
\* handler prints it and main returns
AfterConstruct(key) == IF key THEN "loop" ELSE "aborted"

\* main, lines 1237-1239 (asyncio.sleep(10)), and batch_download of
\* om_flyer_downloader.py, lines 1188-1191 (asyncio.sleep(15)): the pause
PauseSeconds(p) == IF p = "multi" THEN 10 ELSE 15

AfterStep(n, cap, done) == IF done \/ n >= cap THEN "wait" ELSE "mon"

\* how the run ended, if step n ended it
EndOfStep(n, cap, done, was) ==
  IF done THEN "done" ELSE IF n >= cap THEN "cap" ELSE was

\* list(a_set): some enumeration of the set
RECURSIVE SetToSeq(_)
SetToSeq(S) ==
  IF S = {} THEN <<>>
  ELSE LET x == CHOOSE y \in S : TRUE IN <<x>> \o SetToSeq(S \ {x})

\* handle_download, lines 743-759: the retry loop, from iteration attempt
\* on.  fails: how many save_as calls raise before one succeeds.
\*   attempts: save_as calls made; appended: entries added to
\*   downloaded_files; placeholder: the text file was written instead
RECURSIVE SaveLoop(_, _)
SaveLoop(attempt, fails) ==
  IF attempt >= max_retries
    THEN [attempts |-> attempt, appended |-> 0, placeholder |-> FALSE]
  ELSE IF attempt >= fails
    THEN [attempts |-> attempt + 1, appended |-> 1, placeholder |-> FALSE]
  ELSE IF attempt < max_retries - 1
    THEN SaveLoop(attempt + 1, fails)
  ELSE [attempts |-> attempt + 1, appended |-> 0, placeholder |-> TRUE]

\* 1 for an injected failure
Fault(b) == IF b THEN 1 ELSE 0

\* the outcomes of get_current_page() that matter to setup_download_handlers
PageOutcomes == IF download_handlers_setup THEN {TRUE} ELSE BOOLEAN

Range(s) == {s[i] : i \in 1..Len(s)}

\* ------------------------------------------------------------------- main
\* main, lines 1220-1227 and 1244-1247; OMFlyerDownloader.__init__, 623-627
Construct ==
  /\ UNCHANGED otherVars
  /\ pc = "start"
  /\ pc' = AfterConstruct(apiKey)
  /\ idx' = IF AfterConstruct(apiKey) = "loop" THEN 1 ELSE idx
  /\ UNCHANGED <<prog, urls, apiKey, downloaded_files, should_stop,
                 download_handlers_setup, handlerSession, browser_session,
                 current_url, openSessions, fs, existing_files, count,
                 scoutAns, result, all_results, steps, pending, pdfTab, g, faults, prev, flyerVars>>

\* download_om_flyer, lines 875-906: the prologue of one workflow
BeginItem ==
  /\ UNCHANGED otherVars
  /\ pc = "loop"
  /\ prog = "multi"
  /\ current_url' = urls[idx]
  /\ result' = InitResult(urls[idx])
  /\ existing_files' = GlobPdf(fs, get_domain_folder(urls[idx]))
  /\ browser_session' = Session(idx, "main")
  /\ openSessions' = openSessions \cup {Session(idx, "main")}
  /\ g' = [FreshFacts EXCEPT !.pausedFor = g.pausedFor]
  /\ pc' = "scout"
  /\ UNCHANGED <<prog, urls, apiKey, idx, downloaded_files, should_stop,
                 download_handlers_setup, handlerSession, fs, count, scoutAns,
                 all_results, steps, pending, pdfTab, faults, prev, flyerVars>>

\* scout_page, lines 435-507: the scout's own session and agent
BeginScout ==
  /\ UNCHANGED otherVars
  /\ pc = "scout"
  /\ openSessions' = openSessions \cup {Session(idx, "scout")}
  /\ pc' = "scout_run"
  /\ UNCHANGED <<prog, urls, apiKey, idx, downloaded_files, should_stop,
                 download_handlers_setup, handlerSession, browser_session,
                 current_url, fs, existing_files, count, scoutAns, result,
                 all_results, steps, pending, pdfTab, g, faults, prev, flyerVars>>

\* scout_agent.run(max_steps=6), line 510: one step of the scout
ScoutStep ==
  /\ UNCHANGED otherVars
  /\ pc = "scout_run"
  /\ steps < ScoutMaxSteps
  /\ steps' = steps + 1
  /\ \/ \* a navigation or a look at the page
        /\ pc' = IF steps + 1 >= ScoutMaxSteps THEN "scout_end" ELSE "scout_run"
        /\ UNCHANGED <<scoutAns, fs, g>>
     \/ \* the done action with the final answer
        /\ \E t \in ScoutTexts : scoutAns' = [done |-> TRUE, text |-> t]
        /\ pc' = "scout_end"
        /\ UNCHANGED <<fs, g>>
     \/ \* the controller's "Download PDF directly from URL" action
        /\ \E fetched \in BOOLEAN :
             LET r == download_pdf_direct(PdfUrl(current_url), fetched)
             IN  /\ fs' = fs \cup r.written
                 /\ g' = [g EXCEPT !.fresh = @ \cup (r.written \ fs)]
        /\ pc' = IF steps + 1 >= ScoutMaxSteps THEN "scout_end" ELSE "scout_run"
        /\ UNCHANGED scoutAns
  /\ UNCHANGED <<prog, urls, apiKey, idx, downloaded_files, should_stop,
                 download_handlers_setup, handlerSession, browser_session,
                 current_url, openSessions, existing_files, count, result,
                 all_results, pending, pdfTab, faults, prev, flyerVars>>

\* scout_page, lines 558-561: the scout's browser or planner failed
ScoutRaise ==
  /\ UNCHANGED otherVars
  /\ pc = "scout_run"
  /\ faults < MaxFaults
  /\ faults' = faults + 1
  /\ count' = ScoutDefaultOnError
  /\ g' = [g EXCEPT !.scoutKind = "failed"]
  /\ steps' = 0
  /\ scoutAns' = NoAnswer
  /\ pc' = "strategy"
  /\ UNCHANGED <<prog, urls, apiKey, idx, downloaded_files, should_stop,
                 download_handlers_setup, handlerSession, browser_session,
                 current_url, openSessions, fs, existing_files,
                 result, all_results, pending, pdfTab, prev, flyerVars>>

\* scout_page, lines 512-556: read the count, close the scout session
ScoutReturn ==
  /\ UNCHANGED otherVars
  /\ pc = "scout_end"
  /\ count' = ExtractCount(scoutAns)
  /\ openSessions' = openSessions \ {Session(idx, "scout")}
  /\ g' = [g EXCEPT !.scoutKind = IF scoutAns.done /\ IsDigit(Strip(scoutAns.text))
                                    THEN "numeric" ELSE "ambiguous"]
  /\ steps' = 0
  /\ scoutAns' = NoAnswer
  /\ pc' = "strategy"
  /\ UNCHANGED <<prog, urls, apiKey, idx, downloaded_files, should_stop,
                 download_handlers_setup, handlerSession, browser_session,
                 current_url, fs, existing_files, result,
                 all_results, pending, pdfTab, faults, prev, flyerVars>>

\* download_om_flyer, lines 913-929
Strategy ==
  /\ UNCHANGED otherVars
  /\ pc = "strategy"
  /\ LET s == SelectStrategy(count)
     IN  /\ result' = [result EXCEPT
                         !.om_buttons_found = count,
                         !.strategy_used = s,
                         !.error = IF s = "skip" THEN ErrNoButtons ELSE @]
         /\ pc' = AfterStrategy(s)
  /\ UNCHANGED <<prog, urls, apiKey, idx, downloaded_files, should_stop,
                 download_handlers_setup, handlerSession, browser_session,
                 current_url, openSessions, fs, existing_files, count,
                 scoutAns, all_results, steps, pending, pdfTab, g, faults, prev, flyerVars>>

\* _download_single_om, lines 994-1047: handlers, task, agent
SetupSingle ==
  /\ UNCHANGED otherVars
  /\ pc = "setup"
  /\ \E pageOk \in PageOutcomes :
       LET h == SetupHandlers(download_handlers_setup, handlerSession,
                              browser_session, pageOk)
       IN  /\ faults + Fault(~pageOk) <= MaxFaults
           /\ faults' = faults + Fault(~pageOk)
           /\ download_handlers_setup' = h[1]
           /\ handlerSession' = h[2]
  /\ g' = [g EXCEPT !.scoutKind = "none"]
  /\ pc' = "mon"
  /\ UNCHANGED <<prog, urls, apiKey, idx, downloaded_files, should_stop,
                 browser_session, current_url, openSessions, fs,
                 existing_files, count, scoutAns, result, all_results,
                 steps, pending, pdfTab, prev, flyerVars>>

\* documents a click of the main agent may open in a new tab
TabUrls == {PdfUrl(current_url), PdfUrl(Other(current_url))}

\* monitor_downloads (om_multi_agent.py), lines 782-869, the on_step_start
\* hook of the main agent.
\*   pageOk:  get_current_page() inside setup_download_handlers succeeded
\*   monOk:   get_current_page() of line 788 succeeded
\*   fetched: download_pdf_direct on the document tab got the PDF
MonitorDownloads ==
  /\ UNCHANGED otherVars
  /\ pc = "mon"
  /\ prog = "multi"
  /\ \E pageOk \in PageOutcomes, monOk \in BOOLEAN, fetched \in BOOLEAN :
       LET h == SetupHandlers(download_handlers_setup, handlerSession,
                              browser_session, pageOk)
           r == IF pdfTab = NoTab THEN [written |-> {}, msg |-> <<>>]
                ELSE download_pdf_direct(pdfTab, fetched)
           flag == should_stop \/ (pdfTab /= NoTab /\ CaptureSucceeded(r.msg))
           stop == ShouldStopCond(downloaded_files, flag)
       IN  /\ faults + Fault(~pageOk) + Fault(~monOk) <= MaxFaults
           /\ faults' = faults + Fault(~pageOk) + Fault(~monOk)
           /\ download_handlers_setup' = h[1]
           /\ handlerSession' = h[2]
           /\ IF monOk
                THEN /\ fs' = fs \cup r.written
                     /\ should_stop' = (flag \/ stop)
                     /\ pc' = AfterMonitor(stop)
                     /\ g' = [g EXCEPT
                           !.fresh = @ \cup (r.written \ fs),
                           !.placeholder = @ \ r.written,
                           !.capture = IF pdfTab = NoTab THEN "none"
                                       ELSE IF r.written /= {} THEN "ok" ELSE "fail",
                           !.endedBy = IF stop THEN "stop" ELSE @,
                           !.checked = TRUE]
                ELSE \* line 788: get_current_page() raised; the handler of
                     \* lines 868-869 prints the error and the hook returns
                     /\ ~fetched
                     /\ pc' = AfterMonitor(FALSE)
                     /\ g' = [g EXCEPT !.capture = "none",
                                \* a failed check is not part of Scenario B
                                !.scen = IF @ = "B" THEN "other" ELSE @]
                     /\ UNCHANGED <<fs, should_stop>>
  /\ UNCHANGED <<prog, urls, apiKey, idx, downloaded_files, browser_session,
                 current_url, openSessions, existing_files, count, scoutAns,
                 result, all_results, steps, pending, pdfTab, prev, flyerVars>>

\* Agent.run(on_step_start=..., max_steps=10), lines 1051-1054: one step of
\* the main agent, the planner's call and the action it chose.
AgentStep ==
  /\ UNCHANGED otherVars
  /\ pc = "act"
  /\ prog = "multi"
  /\ steps' = steps + 1
  /\ \/ \* navigate, fill a field, select an option
        /\ pc' = AfterStep(steps + 1, StepCap, FALSE)
        /\ g' = [g EXCEPT !.ran = TRUE, !.capture = "none", !.checked = FALSE,
                   !.endedBy = EndOfStep(steps + 1, StepCap, FALSE, @)]
        /\ UNCHANGED <<pending, pdfTab, fs>>
     \/ \* a click that starts a browser download; the event reaches the
        \* handler only on the page the handler was attached to
        /\ pending = {}
        /\ pending' = IF download_handlers_setup /\ handlerSession = browser_session
                        THEN {PdfName} ELSE {}
        /\ pc' = AfterStep(steps + 1, StepCap, FALSE)
        /\ g' = [g EXCEPT !.ran = TRUE, !.capture = "none", !.checked = FALSE,
                   !.endedBy = EndOfStep(steps + 1, StepCap, FALSE, @)]
        /\ UNCHANGED <<pdfTab, fs>>
     \/ \* a click that opens the document in a new tab
        /\ pdfTab = NoTab
        /\ \E u \in TabUrls : pdfTab' = u
        /\ pc' = AfterStep(steps + 1, StepCap, FALSE)
        /\ g' = [g EXCEPT !.ran = TRUE, !.capture = "none", !.checked = FALSE,
                   !.endedBy = EndOfStep(steps + 1, StepCap, FALSE, @)]
        /\ UNCHANGED <<pending, fs>>
     \/ \* the controller's "Download PDF directly from URL" action
        /\ \E h \in {current_url, Other(current_url)}, fetched \in BOOLEAN :
             LET r == download_pdf_direct(PdfUrl(h), fetched)
             IN  /\ fs' = fs \cup r.written
                 /\ g' = [g EXCEPT !.ran = TRUE, !.capture = "none", !.checked = FALSE,
                            !.fresh = @ \cup (r.written \ fs),
                           !.placeholder = @ \ r.written,
                            !.endedBy = EndOfStep(steps + 1, StepCap, FALSE, @)]
        /\ pc' = AfterStep(steps + 1, StepCap, FALSE)
        /\ UNCHANGED <<pending, pdfTab>>
     \/ \* the done action
        /\ pc' = AfterStep(steps + 1, StepCap, TRUE)
        /\ g' = [g EXCEPT !.ran = TRUE, !.capture = "none", !.checked = FALSE,
                   !.endedBy = EndOfStep(steps + 1, StepCap, TRUE, @)]
        /\ UNCHANGED <<pending, pdfTab, fs>>
  /\ UNCHANGED <<prog, urls, apiKey, idx, downloaded_files, should_stop,
                 download_handlers_setup, handlerSession, browser_session,
                 current_url, openSessions, existing_files, count, scoutAns,
                 result, all_results, faults, prev, flyerVars>>

\* _download_single_om, lines 1058-1064 and 1072-1074: agent.run raised an
\* exception that is not the stop signal
AgentRaise ==
  /\ UNCHANGED otherVars
  /\ pc = "act"
  /\ prog = "multi"
  /\ faults < MaxFaults
  /\ faults' = faults + 1
  /\ result' = [result EXCEPT !.error = ErrAgent]
  /\ g' = [g EXCEPT !.endedBy = "exc", !.capture = "none"]
  /\ steps' = 0
  /\ pc' = AfterRaise(prog)
  /\ UNCHANGED <<prog, urls, apiKey, idx, downloaded_files, should_stop,
                 download_handlers_setup, handlerSession, browser_session,
                 current_url, openSessions, fs, existing_files, count,
                 scoutAns, all_results, pending, pdfTab, prev, flyerVars>>

\* _download_single_om, lines 1066-1070: the 5 second wait after the run
WaitAfterRun ==
  /\ UNCHANGED otherVars
  /\ pc = "wait"
  /\ prog = "multi"
  /\ pc' = "post"
  /\ steps' = 0
  /\ UNCHANGED <<prog, urls, apiKey, idx, downloaded_files, should_stop,
                 download_handlers_setup, handlerSession, browser_session,
                 current_url, openSessions, fs, existing_files, count,
                 scoutAns, result, all_results, pending, pdfTab, g, faults, prev, flyerVars>>

\* how many save_as calls of one event raise: none, all but the last, all
FailCounts == {0, max_retries - 1, max_retries}

\* setup_download_handlers.handle_download (om_multi_agent.py), lines
\* 729-773: the browser delivers a download event to the handler.
\*   fails:  save attempts that fail before one succeeds (max_retries: all)
\*   broken: the handler itself raises before it saves
HandleDownload ==
  /\ UNCHANGED otherVars
  /\ prog = "multi"
  /\ pc \in {"mon", "act", "wait", "fin"}
  /\ pending /= {}
  /\ \E name \in pending, fails \in FailCounts, broken \in BOOLEAN :
       LET path == File(get_domain_folder(current_url), name)
           r == SaveLoop(0, fails)
           saved == ~broken /\ r.appended > 0
       IN  /\ faults + Fault(~saved) <= MaxFaults
           /\ faults' = faults + Fault(~saved)
           /\ pending' = pending \ {name}
           /\ downloaded_files' = IF saved THEN Append(downloaded_files, path)
                                  ELSE downloaded_files
           /\ fs' = IF ~broken /\ (saved \/ r.placeholder)
                      THEN fs \cup {path} ELSE fs
           /\ should_stop' = TRUE
           /\ g' = [g EXCEPT
                 !.fresh = IF broken THEN @ ELSE @ \cup {path},
                 !.placeholder = IF broken THEN @
                                 ELSE IF saved THEN @ \ {path}
                                 ELSE IF r.placeholder THEN @ \cup {path}
                                 ELSE @,
                 !.attempts = IF broken THEN 0 ELSE r.attempts,
                 !.flagSet = TRUE,
                 !.events = IF @ < 2 THEN @ + 1 ELSE @,
                 !.scen = IF g.events > 0 THEN @
                          ELSE IF saved /\ steps = ScenarioSteps /\ pc = "mon"
                            THEN "B" ELSE "other"]
  /\ UNCHANGED <<prog, urls, apiKey, pc, idx, download_handlers_setup,
                 handlerSession, browser_session, current_url, openSessions,
                 existing_files, count, scoutAns, result, all_results, steps,
                 pdfTab, prev, flyerVars>>

\* download_om_flyer (om_multi_agent.py), lines 931-957: the verdict
CheckFiles ==
  /\ UNCHANGED otherVars
  /\ pc = "post"
  /\ prog = "multi"
  /\ LET new_files == GlobPdf(fs, get_domain_folder(urls[idx])) \ existing_files
     IN  IF downloaded_files /= <<>>
           THEN /\ result' = [result EXCEPT !.success = TRUE,
                                !.downloaded_files = downloaded_files]
                /\ UNCHANGED downloaded_files
           ELSE IF new_files /= {}
             THEN /\ result' = [result EXCEPT !.success = TRUE,
                                  !.downloaded_files = SetToSeq(new_files)]
                  /\ downloaded_files' = SetToSeq(new_files)
             ELSE /\ result' = [result EXCEPT !.error = ErrNoNewFiles]
                  /\ UNCHANGED downloaded_files
  /\ pc' = "fin"
  /\ UNCHANGED <<prog, urls, apiKey, idx, should_stop,
                 download_handlers_setup, handlerSession, browser_session,
                 current_url, openSessions, fs, existing_files, count,
                 scoutAns, all_results, steps, pending, pdfTab, g, faults, prev, flyerVars>>

\* how a WorkItem ended, for the history
EndClass ==
  IF g.endedBy = "exc" THEN "exc" ELSE "other"

\* download_om_flyer, lines 963-990, and main, lines 1234-1239: the finally
\* block closes the session, the result is collected
Finish ==
  /\ UNCHANGED otherVars
  /\ pc = "fin"
  /\ prog = "multi"
  /\ openSessions' = openSessions \ {browser_session}
  /\ pending' = {}
  /\ pdfTab' = NoTab
  /\ all_results' = Append(all_results, result)
  /\ prev' = EndClass
  /\ pc' = IF idx < Len(urls) THEN "pause" ELSE "done"
  /\ result' = InitResult(NoUrl)
  /\ existing_files' = {}
  /\ count' = 0
  /\ g' = FreshFacts
  /\ UNCHANGED <<prog, urls, apiKey, idx, downloaded_files, should_stop,
                 download_handlers_setup, handlerSession, browser_session,
                 current_url, fs, scoutAns, steps, faults, flyerVars>>

\* main, lines 1237-1239: the pause before the next URL
Pause ==
  /\ UNCHANGED otherVars
  /\ pc = "pause"
  /\ idx' = NextIndex(idx)
  /\ g' = [g EXCEPT !.pausedFor = PauseSeconds(prog)]
  /\ pc' = "loop"
  /\ UNCHANGED <<prog, urls, apiKey, downloaded_files, should_stop,
                 download_handlers_setup, handlerSession, browser_session,
                 current_url, openSessions, fs, existing_files, count,
                 scoutAns, result, all_results, steps, pending, pdfTab, faults, prev, flyerVars>>

\* ------------------------------------------------ om_flyer_downloader.py
\* download_pdf_direct(page) of om_flyer_downloader.py, lines 130-368.
\*   url:     the URL of the page the action runs on
\*   tracked: the page carries _downloader_instance and _downloads_dir
\*   fetched: the request returned the PDF bytes
\* The result names the file written, the file and names to record on the
\* downloader, and the message.
flyer_download_pdf_direct(url, tracked, dir, urlsSeen, files, fetched) ==
  LET folder == IF tracked THEN dir ELSE flyer_get_domain_folder(url.host)
      path == File(folder, PdfName)
      none == [written |-> {}, seen |-> {}, names |-> {}, files |-> <<>>]
  IN  IF tracked /\ url \in urlsSeen
        THEN none @@ [msg |-> MsgAlready]
      ELSE IF url.kind /= "pdf"
        THEN none @@ [msg |-> MsgNotPdf]
      ELSE IF path \in files
        THEN [none EXCEPT !.seen = IF tracked THEN {url} ELSE {},
                          !.names = IF tracked THEN {PdfName} ELSE {}]
             @@ [msg |-> MsgExists]
      ELSE IF fetched
        THEN [written |-> {path},
              seen |-> IF tracked THEN {url} ELSE {},
              names |-> IF tracked THEN {PdfName} ELSE {},
              files |-> IF tracked THEN <<path>> ELSE <<>>,
              msg |-> MsgDownloaded(PdfName)]
      ELSE none @@ [msg |-> MsgAllFailed]

\* batch_download, lines 1173-1183, and download_om_flyer, lines 877-910:
\* the reset of the list, the new session, the folder and the handlers.
\* With a single URL main calls download_om_flyer on the session made by
\* the constructor (lines 773-776, 1297-1299).
FlyerBegin ==
  /\ UNCHANGED otherVars
  /\ pc = "loop"
  /\ prog = "flyer"
  /\ downloaded_files' = IF Len(urls) > 1 THEN <<>> ELSE downloaded_files
  /\ browser_session' = Session(idx, "main")
  /\ openSessions' = openSessions \cup {Session(idx, "main")}
  /\ current_url' = urls[idx]
  /\ result' = InitResult(urls[idx])
  /\ downloads_dir' = flyer_get_domain_folder(urls[idx])
  /\ \E pageOk \in PageOutcomes :
       LET h == SetupHandlers(download_handlers_setup, handlerSession,
                              Session(idx, "main"), pageOk)
       IN  /\ faults + Fault(~pageOk) <= MaxFaults
           /\ faults' = faults + Fault(~pageOk)
           /\ download_handlers_setup' = h[1]
           /\ handlerSession' = h[2]
  /\ g' = [FreshFacts EXCEPT !.pausedFor = g.pausedFor]
  /\ pc' = "mon"
  /\ UNCHANGED <<prog, urls, apiKey, idx, should_stop, fs, existing_files,
                 count, scoutAns, all_results, steps, pending, pdfTab, prev,
                 downloaded_filenames, downloaded_urls>>

\* monitor_downloads (om_flyer_downloader.py), lines 1080-1159: sets up the
\* handlers if that is still to do, reports, never stops the run
FlyerMonitor ==
  /\ UNCHANGED otherVars
  /\ pc = "mon"
  /\ prog = "flyer"
  /\ \E pageOk \in PageOutcomes :
       LET h == SetupHandlers(download_handlers_setup, handlerSession,
                              browser_session, pageOk)
       IN  /\ faults + Fault(~pageOk) <= MaxFaults
           /\ faults' = faults + Fault(~pageOk)
           /\ download_handlers_setup' = h[1]
           /\ handlerSession' = h[2]
  /\ pc' = AfterMonitor(FALSE)
  /\ UNCHANGED <<prog, urls, apiKey, idx, downloaded_files, should_stop,
                 browser_session, current_url, openSessions, fs,
                 existing_files, count, scoutAns, result, all_results, steps,
                 pending, pdfTab, g, prev, flyerVars>>

\* agent.run(on_step_start=..., max_steps=50), lines 1003-1006: one step of
\* the agent, the planner's call and the action it chose
FlyerStep ==
  /\ UNCHANGED otherVars
  /\ pc = "act"
  /\ prog = "flyer"
  /\ steps' = steps + 1
  /\ pc' = AfterStep(steps + 1, StepCap, FALSE)
  /\ \/ \* scroll, fill a field, select an option
        /\ g' = [g EXCEPT !.ran = TRUE,
                   !.endedBy = EndOfStep(steps + 1, StepCap, FALSE, @)]
        /\ UNCHANGED <<pending, fs, downloaded_files, flyerVars>>
     \/ \* a click that starts a browser download
        /\ pending = {}
        /\ pending' = IF download_handlers_setup /\ handlerSession = browser_session
                        THEN {PdfName} ELSE {}
        /\ g' = [g EXCEPT !.ran = TRUE,
                   !.endedBy = EndOfStep(steps + 1, StepCap, FALSE, @)]
        /\ UNCHANGED <<fs, downloaded_files, flyerVars>>
     \/ \* the controller's "Download PDF directly from URL" action on a tab
        /\ \E fetched \in BOOLEAN :
             LET r == flyer_download_pdf_direct(
                        PdfUrl(current_url),
                        download_handlers_setup /\ handlerSession = browser_session,
                        downloads_dir, downloaded_urls, fs, fetched)
             IN  /\ fs' = fs \cup r.written
                 /\ downloaded_urls' = downloaded_urls \cup r.seen
                 /\ downloaded_filenames' = downloaded_filenames \cup r.names
                 /\ downloaded_files' = downloaded_files \o r.files
                 /\ g' = [g EXCEPT !.ran = TRUE,
                            !.fresh = @ \cup (r.written \ fs),
                            !.endedBy = EndOfStep(steps + 1, StepCap, FALSE, @)]
        /\ UNCHANGED <<pending, downloads_dir>>
  /\ UNCHANGED <<prog, urls, apiKey, idx, should_stop,
                 download_handlers_setup, handlerSession, browser_session,
                 current_url, openSessions, existing_files, count, scoutAns,
                 result, all_results, pdfTab, faults, prev>>

\* the done action of the flyer agent ends the run
FlyerDone ==
  /\ UNCHANGED otherVars
  /\ pc = "act"
  /\ prog = "flyer"
  /\ steps' = steps + 1
  /\ pc' = AfterStep(steps + 1, StepCap, TRUE)
  /\ g' = [g EXCEPT !.ran = TRUE,
             !.endedBy = EndOfStep(steps + 1, StepCap, TRUE, @)]
  /\ UNCHANGED <<prog, urls, apiKey, idx, downloaded_files, should_stop,
                 download_handlers_setup, handlerSession, browser_session,
                 current_url, openSessions, fs, existing_files, count,
                 scoutAns, result, all_results, pending, pdfTab, faults, prev,
                 flyerVars>>

\* download_om_flyer, lines 1040-1042: agent.run raised; the handler of the
\* workflow records the message, the verdict is skipped
FlyerRaise ==
  /\ UNCHANGED otherVars
  /\ pc = "act"
  /\ prog = "flyer"
  /\ faults < MaxFaults
  /\ faults' = faults + 1
  /\ result' = [result EXCEPT !.error = ErrAgent]
  /\ g' = [g EXCEPT !.endedBy = "exc"]
  /\ steps' = 0
  /\ pc' = AfterRaise(prog)
  /\ UNCHANGED <<prog, urls, apiKey, idx, downloaded_files, should_stop,
                 download_handlers_setup, handlerSession, browser_session,
                 current_url, openSessions, fs, existing_files, count,
                 scoutAns, all_results, pending, pdfTab, prev, flyerVars>>

\* download_om_flyer, lines 1008-1012: the 5 second wait after the run
FlyerWait ==
  /\ UNCHANGED otherVars
  /\ pc = "wait"
  /\ prog = "flyer"
  /\ pc' = "post"
  /\ steps' = 0
  /\ UNCHANGED <<prog, urls, apiKey, idx, downloaded_files, should_stop,
                 download_handlers_setup, handlerSession, browser_session,
                 current_url, openSessions, fs, existing_files, count,
                 scoutAns, result, all_results, pending, pdfTab, g, faults,
                 prev, flyerVars>>

\* handle_download, lines 848-851: the file name was recorded before
AlreadyRecorded(name, names) == name \in names

\* setup_download_handlers.handle_download (om_flyer_downloader.py), lines
\* 837-865.  saved: download.save_as succeeded.  The handler runs while the
\* workflow awaits the agent or the 5 second wait; from there the verdict
\* and the finally block run on to the close of the session.
FlyerHandleDownload ==
  /\ UNCHANGED otherVars
  /\ prog = "flyer"
  /\ pc \in {"mon", "act", "wait"}
  /\ pending /= {}
  /\ \E name \in pending, saved \in BOOLEAN :
       LET path == File(downloads_dir, name)
           dup == AlreadyRecorded(name, downloaded_filenames)
           keep == ~dup /\ saved
       IN  /\ faults + Fault(~dup /\ ~saved) <= MaxFaults
           /\ faults' = faults + Fault(~dup /\ ~saved)
           /\ pending' = pending \ {name}
           /\ downloaded_files' = IF keep THEN Append(downloaded_files, path)
                                  ELSE downloaded_files
           /\ downloaded_filenames' = IF keep THEN downloaded_filenames \cup {name}
                                      ELSE downloaded_filenames
           /\ fs' = IF keep THEN fs \cup {path} ELSE fs
           /\ g' = [g EXCEPT
                 !.fresh = IF keep THEN @ \cup ({path} \ fs) ELSE @,
                 !.events = IF @ < 2 THEN @ + 1 ELSE @]
  /\ UNCHANGED <<prog, urls, apiKey, pc, idx, should_stop,
                 download_handlers_setup, handlerSession, browser_session,
                 current_url, openSessions, existing_files, count, scoutAns,
                 result, all_results, steps, pdfTab, prev, downloaded_urls,
                 downloads_dir>>

\* download_om_flyer (om_flyer_downloader.py), lines 1014-1038: the verdict
FlyerCheckFiles ==
  /\ UNCHANGED otherVars
  /\ pc = "post"
  /\ prog = "flyer"
  /\ LET pdf_files == GlobPdf(fs, downloads_dir)
     IN  IF downloaded_files /= <<>>
           THEN /\ result' = [result EXCEPT !.success = TRUE,
                                !.downloaded_files = downloaded_files]
                /\ UNCHANGED downloaded_files
           ELSE IF pdf_files /= {}
             THEN /\ result' = [result EXCEPT !.success = TRUE,
                                  !.downloaded_files = SetToSeq(pdf_files)]
                  /\ downloaded_files' = SetToSeq(pdf_files)
             ELSE /\ result' = [result EXCEPT !.error = ErrNoFiles]
                  /\ UNCHANGED downloaded_files
  /\ pc' = "fin"
  /\ UNCHANGED <<prog, urls, apiKey, idx, should_stop,
                 download_handlers_setup, handlerSession, browser_session,
                 current_url, openSessions, fs, existing_files, count,
                 scoutAns, all_results, steps, pending, pdfTab, g, faults,
                 prev, flyerVars>>

\* download_om_flyer, lines 1044-1078, and batch_download, lines 1184-1191:
\* the finally block closes the session, the result is collected
FlyerFinish ==
  /\ UNCHANGED otherVars
  /\ pc = "fin"
  /\ prog = "flyer"
  /\ openSessions' = openSessions \ {browser_session}
  /\ pending' = {}
  /\ all_results' = Append(all_results, result)
  /\ prev' = EndClass
  /\ pc' = IF idx < Len(urls) THEN "pause" ELSE "done"
  /\ result' = InitResult(NoUrl)
  /\ g' = FreshFacts
  /\ UNCHANGED <<prog, urls, apiKey, idx, downloaded_files, should_stop,
                 download_handlers_setup, handlerSession, browser_session,
                 current_url, fs, existing_files, count, scoutAns, steps,
                 pdfTab, faults, flyerVars>>

\* ------------------------------------------------ browser-use/OM.py
\* The listing-page downloader: one call of download_oms_from_listing_page.
\* pc: "l_start" -> "l_run" -> "l_collect" -> "l_done" | "l_failed".

\* the properties of the listing page
Props == {"p1", "p2", "p3"}

\* the name download_om gives the file of a property (lines 129-131) and
\* the name it has after the renaming of lines 334-340
RenamedFile(name) == <<"OM_Levy", name, "pdf">>

\* get_property_id, lines 60-75: the name and the last component of the
\* path, joined when both are there
get_property_id(url_id, name) ==
  IF name /= "" /\ url_id /= <<>> THEN <<name, url_id>>
  ELSE IF url_id /= <<>> THEN <<"", url_id>>
  ELSE <<name, <<>>>>

HistoryIds == {get_property_id(RenamedFile(p), p) : p \in Props}

\* download_history.json does not hold JSON
Corrupt == [json |-> FALSE, ids |-> {}]

\* load_download_history, lines 45-53: the list "downloaded_properties"
load_download_history(file) == IF file.json THEN file.ids ELSE {}

\* the names bound when line 283 runs: the parameters and locals assigned
\* in lines 155-282 and the names of the module (lines 1-153)
BoundAtLine283 ==
  {"main_listing_url", "contact_info", "max_properties", "download_history",
   "downloaded_properties", "llm", "context_config", "browser",
   "browser_context", "max_properties_instruction", "agent", "result",
   "wait_time", "files", "f", "user_downloads", "recent_files",
   "current_files", "now", "filename", "file_path",
   "PDF_DOWNLOAD_DIR", "HISTORY_FILE", "MAX_PROPERTIES", "OPENAI_API_KEY",
   "logger", "controller", "os", "re", "json", "time", "asyncio"}

\* Python's lookup of a name: NameError when it is not bound
IsBound(name) == name \in BoundAtLine283

listingFrame ==
  <<prog, urls, apiKey, idx, downloaded_files, should_stop,
    download_handlers_setup, handlerSession, browser_session, current_url,
    openSessions, fs, existing_files, count, scoutAns, result, all_results,
    steps, pending, pdfTab, g, faults, prev, flyerVars, token_tracker, tk>>

InitListing ==
  /\ prog = "listing"
  /\ urls = <<HostWwwACom>>
  /\ apiKey = TRUE
  /\ pc = "l_start"
  /\ idx = 0
  /\ downloaded_files = <<>>
  /\ should_stop = FALSE
  /\ download_handlers_setup = FALSE
  /\ handlerSession = NoSession
  /\ browser_session = NoSession
  /\ current_url = NoUrl
  /\ openSessions = {}
  /\ fs = {}
  /\ existing_files = {}
  /\ count = 0
  /\ scoutAns = NoAnswer
  /\ result = InitResult(NoUrl)
  /\ all_results = <<>>
  /\ steps = 0
  /\ pending = {}
  /\ pdfTab = NoTab
  /\ g = FreshFacts
  /\ faults = 0
  /\ downloaded_filenames = {}
  /\ downloaded_urls = {}
  /\ downloads_dir = <<>>
  /\ prev = "none"
  /\ history \in {[json |-> TRUE, ids |-> s] : s \in SUBSET HistoryIds} \cup {Corrupt}
  /\ lst = NoListing
  /\ token_tracker = NewTracker
  /\ tk = NoTokens

\* download_oms_from_listing_page, lines 166-170: the history is loaded
\* (and its length printed; nothing else reads it)
ListingLoad ==
  /\ pc = "l_start"
  /\ lst' = [lst EXCEPT !.loaded = load_download_history(history)]
  /\ pc' = "l_run"
  /\ UNCHANGED <<history, listingFrame>>

\* a step of the agent (task of lines 197-215) that downloads the package
\* of one property through the 'Download OM' action, lines 115-137
ListingStep ==
  /\ pc = "l_run"
  /\ \E p \in Props \ lst.files : lst' = [lst EXCEPT !.files = @ \cup {p}]
  /\ UNCHANGED <<pc, history, listingFrame>>

\* lines 222-226 and 231-234: agent.run() returned, the browser is closed
ListingAgentDone ==
  /\ pc = "l_run"
  /\ lst' = [lst EXCEPT !.finished = TRUE]
  /\ pc' = "l_collect"
  /\ UNCHANGED <<history, listingFrame>>

\* lines 228-230: agent.run() raised, the function re-raises and main's
\* handler (lines 427-430) prints the error
ListingAgentRaise ==
  /\ pc = "l_run"
  /\ pc' = "l_failed"
  /\ UNCHANGED <<history, lst, listingFrame>>

\* lines 236-363: the new files are computed (line 283), renamed, and the
\* history is loaded again, extended and saved (lines 353-363).
\*   named: the downloads whose property name the summary gave (lines 288-295)
ListingCollect ==
  /\ pc = "l_collect"
  /\ \E named \in SUBSET lst.files :
       IF IsBound("initial_files")
         THEN /\ history' =
                   [json |-> TRUE,
                    ids |-> load_download_history(history)
                            \cup {get_property_id(RenamedFile(p), p) : p \in named}]
              /\ pc' = "l_done"
         ELSE \* NameError at line 283, printed by main (lines 427-430)
              /\ named = {}
              /\ history' = history
              /\ pc' = "l_failed"
  /\ UNCHANGED <<lst, listingFrame>>

NextListing ==
  \/ ListingLoad
  \/ ListingStep
  \/ ListingAgentDone
  \/ ListingAgentRaise
  \/ ListingCollect

\* ------------------------------- om_flyer_downloader.py: token accounting
\* download_om_flyer and batch_download seen through the token tracker only.
\* pc: "t_loop" -> "t_run" -> "t_fin" -> "t_loop" | "t_done".

\* llm_output of a response without 'token_usage' (lines 48-50)
NoUsage == [prompt_tokens |-> 0, completion_tokens |-> 0, total_tokens |-> 0,
            present |-> FALSE]

\* token_usage of the responses of the planner
Usages ==
  {[prompt_tokens |-> 2, completion_tokens |-> 1, total_tokens |-> 3,
    present |-> TRUE]}

\* TokenTrackingCallback.on_llm_end, lines 42-74 (costs left out)
on_llm_end(t, u) ==
  IF u.present
    THEN [call_count |-> t.call_count + 1,
          input_tokens |-> t.input_tokens + u.prompt_tokens,
          output_tokens |-> t.output_tokens + u.completion_tokens,
          total_tokens |-> t.total_tokens + u.total_tokens]
    ELSE [t EXCEPT !.call_count = @ + 1]

\* download_om_flyer, lines 1050-1060: result["token_usage"]
TokenUsage(tracker, start_tokens) ==
  [total_tokens |-> tracker.total_tokens - start_tokens,
   input_tokens |-> tracker.input_tokens,
   output_tokens |-> tracker.output_tokens,
   llm_calls |-> tracker.call_count]

tokenFrame ==
  <<prog, urls, apiKey, downloaded_files, should_stop,
    download_handlers_setup, handlerSession, browser_session, current_url,
    openSessions, fs, existing_files, count, scoutAns, steps, pending,
    pdfTab, g, faults, prev, flyerVars, history, lst>>

InitTokens ==
  /\ prog = "flyer"
  /\ urls \in UrlLists
  /\ apiKey = TRUE
  /\ pc = "t_loop"
  /\ idx = 1
  /\ downloaded_files = <<>>
  /\ should_stop = FALSE
  /\ download_handlers_setup = FALSE
  /\ handlerSession = NoSession
  /\ browser_session = NoSession
  /\ current_url = NoUrl
  /\ openSessions = {}
  /\ fs = {}
  /\ existing_files = {}
  /\ count = 0
  /\ scoutAns = NoAnswer
  /\ result = InitResult(NoUrl)
  /\ all_results = <<>>
  /\ steps = 0
  /\ pending = {}
  /\ pdfTab = NoTab
  /\ g = FreshFacts
  /\ faults = 0
  /\ downloaded_filenames = {}
  /\ downloaded_urls = {}
  /\ downloads_dir = <<>>
  /\ prev = "none"
  /\ history = NoHistory
  /\ lst = NoListing
  /\ token_tracker = NewTracker
  /\ tk = NoTokens

\* download_om_flyer, lines 881-892: the token state at the start
TokBegin ==
  /\ pc = "t_loop"
  /\ tk' = [start_tokens |-> token_tracker.total_tokens, own |-> NewTracker]
  /\ result' = InitResult(urls[idx])
  /\ pc' = "t_run"
  /\ UNCHANGED <<idx, all_results, token_tracker, tokenFrame>>

\* one call of the planner during agent.run (lines 1003-1006): the
\* callback registered at line 740 is told the response
TokLLMEnd ==
  /\ pc = "t_run"
  /\ tk.own.call_count < MaxCalls
  /\ \E u \in Usages \cup {NoUsage} :
       /\ token_tracker' = on_llm_end(token_tracker, u)
       /\ tk' = [tk EXCEPT !.own = on_llm_end(@, u)]
  /\ UNCHANGED <<pc, idx, result, all_results, tokenFrame>>

\* download_om_flyer, lines 1044-1061: the finally block fills token_usage
TokUsage ==
  /\ pc = "t_run"
  /\ result' = [url |-> result.url,
                token_usage |-> TokenUsage(token_tracker, tk.start_tokens)]
  /\ pc' = "t_fin"
  /\ UNCHANGED <<idx, all_results, token_tracker, tk, tokenFrame>>

\* batch_download, lines 1174-1191 (main, lines 1299-1300, for one URL):
\* the result is collected and the next URL taken
TokCollect ==
  /\ pc = "t_fin"
  /\ all_results' = Append(all_results, result)
  /\ pc' = IF idx < Len(urls) THEN "t_loop" ELSE "t_done"
  /\ idx' = IF idx < Len(urls) THEN NextIndex(idx) ELSE idx
  /\ UNCHANGED <<result, token_tracker, tk, tokenFrame>>

NextTokens ==
  \/ TokBegin
  \/ TokLLMEnd
  \/ TokUsage
  \/ TokCollect

\* ------------------------------------------------------------- properties
DriverPcs == {"mon", "act", "wait"}
ScoutPcs == {"scout_run", "scout_end"}

\* C1: once the per-step check of a workflow has found a recorded download
\* or the stop flag, the main agent makes no further planner call and no
\* further page action in that workflow, whatever step budget remains.
C1_NoStepAfterStop ==
  [][g.endedBy = "stop" =>
       /\ steps' <= steps
       /\ pc' \notin {"mon", "act"}
       /\ pending' \subseteq pending
       /\ pdfTab' \in {pdfTab, NoTab}]_vars

\* a run stopped by the check with budget left
C1_StoppedEarly ==
  /\ prog = "multi"
  /\ pc = "wait"
  /\ g.endedBy = "stop"
  /\ steps > 0
  /\ steps < SingleMaxSteps

\* C2 (as stated): the stop signal and the result of a WorkItem depend only
\* on downloads that happened since that WorkItem started.
C2_OnlyOwnDownloads ==
  (prog = "multi" /\ pc = "fin") =>
    /\ g.endedBy = "stop" => g.events > 0
    /\ result.success => Range(result.downloaded_files) \subseteq g.fresh

\* C3: an exception of the browser or the agent in one WorkItem stays inside
\* that WorkItem: the program does not abort, every URL gets its result, and
\* the next WorkItem runs on a session of its own.
C3_FailureContained ==
  /\ pc = "aborted" => ~apiKey
  /\ pc = "done" => Len(all_results) = Len(urls)
  /\ (prev = "exc" /\ pc \in DriverPcs) =>
       /\ browser_session = Session(idx, "main")
       /\ browser_session \in openSessions
       /\ result.url = urls[idx]

\* the WorkItem after a failed one ran its scout and its agent and succeeded
C3_NextSucceeds ==
  /\ prog = "multi"
  /\ prev = "exc"
  /\ idx = 2
  /\ pc = "fin"
  /\ result.strategy_used = "single"
  /\ g.ran
  /\ result.success

\* C4: the main agent never executes more steps than its cap (10 in
\* om_multi_agent.py, 50 in om_flyer_downloader.py) and the scout never
\* more than 6.
C4_StepCaps ==
  /\ pc \in ScoutPcs => steps <= ScoutMaxSteps
  /\ (pc \in DriverPcs /\ prog = "multi") => steps <= SingleMaxSteps
  /\ (pc \in DriverPcs /\ prog = "flyer") => steps <= BatchMaxSteps

\* a run that used its whole budget
C4_CapReached ==
  /\ prog = "multi"
  /\ pc = "wait"
  /\ steps = SingleMaxSteps
  /\ g.endedBy = "cap"

\* the strategy the specification assigns to a count
SpecStrategy(n) == IF n = 0 THEN "skip" ELSE IF n = 1 THEN "single" ELSE "batch"

\* C5 (as stated): the strategy is a function of the count alone, 0 gives
\* Skip, 1 gives Single, more than 1 gives Batch(count).
C5_AsStated ==
  (prog = "multi" /\ result.strategy_used /= "") =>
    result.strategy_used = SpecStrategy(result.om_buttons_found)

\* C5 (amended): the strategy is a function of the count alone, 0 gives
\* Skip and every count of 1 or more gives Single; no batch strategy is
\* ever selected.
C5_SkipOrSingle ==
  (prog = "multi" /\ result.strategy_used /= "") =>
    /\ result.om_buttons_found = 0 => result.strategy_used = "skip"
    /\ result.om_buttons_found >= 1 => result.strategy_used = "single"

\* a count above one with its strategy selected
C5_SeveralButtons ==
  /\ prog = "multi"
  /\ pc = "setup"
  /\ result.om_buttons_found > 1
  /\ result.strategy_used = "single"

\* C6 (as stated): when the scout's answer is ambiguous or the scout fails,
\* the count is 1, so the strategy is Single and the page is not skipped.
C6_DefaultIsOne ==
  (pc = "strategy" /\ g.scoutKind \in {"ambiguous", "failed"}) =>
    /\ count = 1
    /\ SelectStrategy(count) = "single"

\* C7 (as stated): with a count of 0 the main agent runs no step and the
\* result has success = False and error = None.
C7_AsStated ==
  (prog = "multi" /\ pc = "fin" /\ result.om_buttons_found = 0) =>
    /\ ~g.ran
    /\ ~result.success
    /\ result.error = NoError

\* C7 (amended): with a count of 0 the strategy is skip, the main agent
\* runs no step, and the result has success = False, no files, and the
\* error "No OM buttons found on the webpage".
C7_SkipResult ==
  (prog = "multi" /\ pc = "fin" /\ result.om_buttons_found = 0) =>
    /\ result.strategy_used = "skip"
    /\ ~g.ran
    /\ g.endedBy = "none"
    /\ ~result.success
    /\ result.downloaded_files = <<>>
    /\ result.error = ErrNoButtons

\* a skipped WorkItem about to be collected
C7_Skipped ==
  /\ prog = "multi"
  /\ pc = "fin"
  /\ result.om_buttons_found = 0
  /\ result.strategy_used = "skip"

\* C8 (as stated): a run that used up its step cap without a download ends
\* with success = False and an error that tells budget exhaustion apart
\* from a run that ended by itself without a file.
C8_ExhaustionTold ==
  (prog = "multi" /\ pc = "fin" /\ g.endedBy = "cap" /\ g.events = 0
   /\ g.fresh = {} /\ downloaded_files = <<>>) =>
    /\ ~result.success
    /\ result.error /= NoError
    /\ result.error /= ErrNoNewFiles

C10_CaptureStops ==
  (prog = "multi" /\ g.capture = "ok") => (pc /= "act" /\ g.endedBy = "stop")

\* C11 (as stated): in the batch workflow, once the distinct recorded
\* downloads reach the number of documents the page offers, the agent takes
\* no later step.
C11_StopsAtExpected ==
  [][(prog = "flyer" /\ pc \in DriverPcs
      /\ Cardinality(Range(downloaded_files)) >= Cardinality(Names))
     => steps' <= steps]_vars

\* C12: in om_flyer_downloader.py, recording an artifact that is recorded
\* already changes nothing: whether the browser's download event or the
\* direct fetch observes it, first or second, downloaded_files holds each
\* file once.
C12_RecordedOnce ==
  prog = "flyer" =>
    /\ Len(downloaded_files) = Cardinality(Range(downloaded_files))
    /\ Cardinality(Range(downloaded_files)) <= Cardinality(Names)

\* two download events handled without any failure: the second one found
\* its file recorded
C12_SeenTwice ==
  /\ prog = "flyer"
  /\ pc \in DriverPcs
  /\ g.events = 2
  /\ faults = 0
  /\ Len(downloaded_files) = 1

\* positions of a workflow of om_multi_agent.py after scout_page returned
AfterScoutPcs == {"strategy", "setup", "mon", "act", "wait", "post", "fin"}

\* C13 (as stated): every exit of scout_page closes the browser session the
\* scout opened for itself, also when the scout agent's run raises and the
\* default count is returned.
C13_ScoutSessionClosed ==
  (prog = "multi" /\ pc \in AfterScoutPcs) =>
    Session(idx, "scout") \notin openSessions

\* the files download_om_flyer would count as new for the current WorkItem
NewFiles(files) ==
  GlobPdf(files, get_domain_folder(current_url)) \ existing_files

\* C14 (as stated): whatever the scout's planner does, the scout pass leaves
\* downloaded_files, should_stop and the set of files later counted as new
\* as they were.
C14_ScoutFrame ==
  [][(prog = "multi" /\ pc \in {"scout", "scout_run", "scout_end"}) =>
       /\ downloaded_files' = downloaded_files
       /\ should_stop' = should_stop
       /\ NewFiles(fs') = NewFiles(fs)]_vars

\* C15 (as stated): the main agent of a WorkItem runs on a session created
\* for that WorkItem, and when a WorkItem has ended every session the
\* program created is closed, whether it succeeded, failed or was skipped.
C15_SessionsScoped ==
  /\ pc \in DriverPcs =>
       /\ browser_session = Session(idx, "main")
       /\ browser_session \in openSessions
       /\ Session(idx, "scout") /= browser_session
  /\ pc \in {"pause", "done"} => openSessions = {}

\* positions inside a WorkItem, from its dispatch to its result
ItemPcs == {"loop", "scout", "scout_run", "scout_end", "strategy", "setup",
            "mon", "act", "wait", "post", "fin"}

\* C16: the WorkItems run one after another in input order, a WorkItem
\* starts only when all earlier ones have ended and their sessions are
\* closed, and every WorkItem but the first starts after a pause of more
\* than zero seconds.
C16_SequentialWithPause ==
  /\ \A i \in 1..Len(all_results) : all_results[i].url = urls[i]
  /\ pc \in ItemPcs =>
       /\ Len(all_results) = idx - 1
       /\ {s \in openSessions : s[2] = "main"} \subseteq {Session(idx, "main")}
       /\ idx > 1 => g.pausedFor > 0

\* the second WorkItem at work after the first has ended
C16_SecondItemRuns ==
  /\ idx = 2
  /\ pc = "act"
  /\ Len(all_results) = 1
  /\ g.pausedFor > 0

\* C17 (as stated): after every step the main agent executes, the last one
\* of a run included, the stop condition is evaluated before the planner is
\* called again.
C17_CheckedAfterEveryStep ==
  (prog = "multi" /\ g.ran) =>
    /\ pc = "act" => g.checked
    /\ pc = "wait" => g.checked

\* C18 (as stated): when the main agent's run raised an exception that is
\* not the stop signal, the WorkItem's result carries that exception's
\* message as its error.
C18_ErrorPreserved ==
  (pc = "fin" /\ g.endedBy = "exc") => result.error = ErrAgent

\* the download folder the running tool gives to a host
FolderOf(h) ==
  IF prog = "multi" THEN get_domain_folder(h) ELSE flyer_get_domain_folder(h)

\* C19 (as stated): a URL with another host name than the WorkItem at work
\* is given another download folder than that WorkItem.
C19_DistinctFolders ==
  pc \in ItemPcs =>
    \A h \in Hosts : h /= urls[idx] => FolderOf(h) /= FolderOf(urls[idx])

\* C20: without an API key the run aborts in the constructor: no WorkItem
\* is dispatched, no session is opened, no scout step and no step of the
\* main agent runs, and no result is produced.
C20_NoKeyNoWork ==
  ~apiKey =>
    /\ pc \in {"start", "aborted"}
    /\ idx = 0
    /\ steps = 0
    /\ openSessions = {}
    /\ all_results = <<>>
    /\ ~g.ran

\* a run that was aborted for the missing key
C20_Aborted ==
  /\ ~apiKey
  /\ pc = "aborted"
  /\ Len(urls) > 0

\* how far a WorkItem has got
Rank(p) ==
  CASE p = "loop" -> 1
    [] p = "scout" -> 2
    [] p = "scout_run" -> 3
    [] p = "scout_end" -> 4
    [] p = "strategy" -> 5
    [] p = "setup" -> 6
    [] p \in {"mon", "act"} -> 7
    [] p = "wait" -> 8
    [] p = "post" -> 9
    [] p = "fin" -> 10
    [] p = "pause" -> 11
    [] p = "done" -> 12
    [] OTHER -> 0

\* C21: a WorkItem goes through scout, strategy, driver and result once and
\* only forward; the URL index only moves to the next URL, after the
\* result of the current one was collected; each WorkItem adds exactly one
\* result, in input order; no step runs once the result is there; a failed
\* WorkItem is not run again.
C21_OncePerItem ==
  [][/\ idx' = idx => Rank(pc') >= Rank(pc)
     /\ idx' /= idx => /\ idx' = idx + 1
                       /\ pc \in {"start", "pause"}
                       /\ Len(all_results) = idx
     /\ (pc \in {"scout", "scout_run"} /\ pc' \in {"scout_run", "scout_end"})
          \/ pc' \notin {"scout_run"}
     /\ Len(all_results') = Len(all_results) + (IF pc = "fin" /\ pc' /= "fin" THEN 1 ELSE 0)
     /\ \A i \in 1..Len(all_results') : all_results'[i].url = urls[i]
     /\ pc \in {"fin", "pause", "done"} => steps' = steps
     /\ pc' = "done" => Len(all_results') = Len(urls)]_vars

\* a second WorkItem at work after the first one failed
C21_AfterFailure ==
  /\ idx = 2
  /\ prev = "exc"
  /\ pc = "act"
  /\ Len(all_results) = 1
  /\ all_results[1].error /= NoError

\* C22 (as stated): when a run of the listing-page downloader ends after
\* the agent has finished, the history file holds every identifier that was
\* loaded at the start and an identifier for every property downloaded in
\* the run.
C22_HistoryRewritten ==
  (prog = "listing" /\ pc \in {"l_done", "l_failed"} /\ lst.finished) =>
    /\ lst.loaded \subseteq load_download_history(history)
    /\ \A p \in lst.files :
         get_property_id(RenamedFile(p), p) \in load_download_history(history)

\* C23 (as stated): in om_flyer_downloader.py a WorkItem is successful only
\* through files that appeared during it, and only those are listed in its
\* result: PDFs that were in the folder before do not count.
C23_OnlyNewFilesCount ==
  (prog = "flyer" /\ pc = "fin") =>
    /\ result.success => g.fresh /= {}
    /\ Range(result.downloaded_files) \subseteq g.fresh

\* C24 (as stated): once a download event of the WorkItem has been handled
\* in om_multi_agent.py, the main agent executes no further step, wherever
\* in a step the event arrived.
C24_NoStepAfterEvent ==
  [][(prog = "multi" /\ g.events > 0) => steps' <= steps]_vars

\* C25 (as stated): whenever the main agent of a WorkItem is about to act, in
\* either tool and with no failure anywhere in the run, the download handler
\* is attached to a page of that WorkItem's own browser session.
C25_HandlerOnOwnSession ==
  (pc = "act" /\ faults = 0) =>
    /\ download_handlers_setup
    /\ handlerSession = browser_session

\* C26 (as stated): in om_multi_agent.py no file listed in a result is the
\* placeholder the handler writes when every save attempt failed, and a
\* successful result lists a file that was really saved.
C26_PlaceholderNotCounted ==
  (prog = "multi" /\ pc = "fin") =>
    /\ Range(result.downloaded_files) \cap g.placeholder = {}
    /\ result.success => Range(result.downloaded_files) \ g.placeholder /= {}

\* C27 (as stated): a result of download_om_flyer (om_multi_agent.py) with
\* success = True has no error.
C27_SuccessHasNoError ==
  (prog = "multi" /\ pc = "fin") => (result.success => result.error = NoError)

\* a step of handle_download in om_multi_agent.py
IsHandleDownload == prog = "multi" /\ pending' /= pending /\ pc' = pc

\* C28: handling one download event calls save_as at most 3 times, adds at
\* most one entry to downloaded_files, adds it only when the file was saved,
\* and leaves should_stop set whether the save succeeded, every attempt
\* failed, or the handler itself failed.
C28_HandlerBounded ==
  [][IsHandleDownload =>
       /\ g'.attempts <= max_retries
       /\ Len(downloaded_files') <= Len(downloaded_files) + 1
       /\ SubSeq(downloaded_files', 1, Len(downloaded_files)) = downloaded_files
       /\ Len(downloaded_files') > Len(downloaded_files) =>
            /\ downloaded_files'[Len(downloaded_files')] \in fs'
            /\ downloaded_files'[Len(downloaded_files')] \notin g'.placeholder
       /\ should_stop']_vars

\* an event whose three save attempts all failed has been handled
C28_AllAttemptsFailed ==
  /\ prog = "multi"
  /\ g.events = 1
  /\ g.attempts = max_retries
  /\ g.placeholder /= {}
  /\ downloaded_files = <<>>
  /\ should_stop

\* C29 (as stated): a PDF that download_pdf_direct saved during a WorkItem
\* of om_multi_agent.py into the folder of another host than the
\* WorkItem's URL makes the WorkItem successful and is listed in its result
\* (WorkItems whose agent raised an exception left aside).
C29_ForeignHostCounted ==
  (prog = "multi" /\ pc = "fin" /\ g.endedBy /= "exc") =>
    \A f \in g.fresh :
      f.dir /= get_domain_folder(urls[idx]) =>
        /\ result.success
        /\ f \in Range(result.downloaded_files)

\* C30 (as stated): the token_usage of every WorkItem of om_flyer_downloader.py
\* gives the calls and tokens of that WorkItem alone.
C30_UsagePerItem ==
  (prog = "flyer" /\ pc = "t_fin") =>
    /\ result.token_usage.total_tokens = tk.own.total_tokens
    /\ result.token_usage.llm_calls = tk.own.call_count
    /\ result.token_usage.input_tokens = tk.own.input_tokens
    /\ result.token_usage.output_tokens = tk.own.output_tokens

Next ==
  \/ Construct
  \/ BeginItem
  \/ BeginScout
  \/ ScoutStep
  \/ ScoutRaise
  \/ ScoutReturn
  \/ Strategy
  \/ SetupSingle
  \/ MonitorDownloads
  \/ AgentStep
  \/ AgentRaise
  \/ WaitAfterRun
  \/ HandleDownload
  \/ CheckFiles
  \/ Finish
  \/ Pause
  \/ FlyerBegin
  \/ FlyerMonitor
  \/ FlyerStep
  \/ FlyerDone
  \/ FlyerRaise
  \/ FlyerWait
  \/ FlyerHandleDownload
  \/ FlyerCheckFiles
  \/ FlyerFinish

Spec == Init /\ [][Next]_vars

\* browser-use/OM.py
SpecListing == InitListing /\ [][NextListing]_vars

\* token accounting of om_flyer_downloader.py
SpecTokens == InitTokens /\ [][NextTokens]_vars
====
